---- MODULE Spec2Model ----
(***************************************************************************)
(* Transcript acquisition of ekko: the unified transcript fetcher          *)
(* (ekko_prototype/pages/tools/transcript_fetcher.py), its disk cache and  *)
(* the YouTube subtitle retriever (youtube_detector.py).                   *)
(*                                                                         *)
(* Representation.  Python's None for a string-valued field is the string  *)
(* "None".  An Optional value of a structured type is a sequence of length *)
(* 0 (None) or 1 (the value).  A name (podcast name, episode title) is a   *)
(* sequence of one-character strings.  A text is a sequence of runs        *)
(* [tok, n]: n whitespace-separated copies of the token tok.  A float      *)
(* score is an integer number of hundredths.                               *)
(***************************************************************************)
EXTENDS Integers, Sequences, FiniteSets, TLC

VARIABLES config, cache_dir, last, frame, contested_file, writers,
          session_state, now, transcribed

\* the fetcher, its cache directory and the last call made on them
fetcherVars == <<config, cache_dir, last>>

\* the activation of a function wrapped with retry
retryVars == <<frame>>

\* one cache file that two processes write, and where each writer is
raceVars == <<contested_file, writers>>

\* the browser session, the clock and the number of transcriptions made
\* since the last daily reset
authVars == <<session_state, now, transcribed>>

\* what an operation of the fetcher, the cache, the hosted backend or the
\* scorer leaves alone
restVars == <<retryVars, raceVars, authVars>>

vars == <<fetcherVars, restVars>>

(***************************************************************************)
(* Bounds of the model                                                     *)
(***************************************************************************)
\* longest file name the filesystem accepts, in characters (scaled down)
NAME_MAX == 4
\* largest value of max_cache_size_mb a configuration is given
MaxBudgetMb == 3

(***************************************************************************)
(* models.py                                                               *)
(***************************************************************************)
None == "None"

NoneOpt == << >>

Some(x) == <<x>>

\* class TranscriptSource(str, Enum): the member names
TranscriptSource ==
    {"YOUTUBE_MANUAL", "YOUTUBE_AUTO", "WHISPER_LOCAL", "WHISPER_OPENAI",
     "WHISPER_REMOTE", "NOT_AVAILABLE"}

\* member.value
SourceValue(m) ==
    CASE m = "YOUTUBE_MANUAL" -> "youtube_manual"
      [] m = "YOUTUBE_AUTO"   -> "youtube_auto"
      [] m = "WHISPER_LOCAL"  -> "whisper_local"
      [] m = "WHISPER_OPENAI" -> "whisper_openai"
      [] m = "WHISPER_REMOTE" -> "whisper_remote"
      [] m = "NOT_AVAILABLE"  -> "not_available"

\* TranscriptSource(value): the member with that value
SourceOfValue(v) == CHOOSE m \in TranscriptSource : SourceValue(m) = v

\* TranscriptResult(text=, source=, quality_score=, metadata=): the fields not
\* given keep their default None
TranscriptResult(text, source, quality_score, metadata) ==
    [text |-> text, source |-> source, quality_score |-> quality_score,
     language |-> None, duration_seconds |-> None, word_count |-> None,
     metadata |-> metadata]

\* the fields of TranscriptConfig; it has no field youtube_languages
TranscriptConfigFields ==
    {"prefer_youtube", "use_openai_whisper", "use_remote_whisper",
     "cache_transcripts", "cache_dir", "max_cache_size_mb", "whisper_model",
     "languages"}

\* the configurations a fetcher is constructed with
TranscriptConfig ==
    [prefer_youtube : BOOLEAN, use_openai_whisper : BOOLEAN,
     use_remote_whisper : BOOLEAN, cache_transcripts : BOOLEAN,
     max_cache_size_mb : 1..MaxBudgetMb]

(***************************************************************************)
(* Texts                                                                   *)
(***************************************************************************)
Run(tok, n) == [tok |-> tok, n |-> n]

RECURSIVE SumRuns(_, _)
\* the number of tokens of the runs of text whose token is in toks
SumRuns(text, toks) ==
    IF text = << >> THEN 0
    ELSE (IF Head(text).tok \in toks THEN Head(text).n ELSE 0)
         + SumRuns(Tail(text), toks)

Tokens == {"word", "word.", "[inaudible]", "[music]", "..."}

\* len(text.split())
WordCount(text) == SumRuns(text, Tokens)

\* bool(text) of an Optional[str]: None and "" are falsy
Truthy(optText) == optText # NoneOpt /\ WordCount(optText[1]) > 0

(***************************************************************************)
(* youtube_detector.py: the quality scorer                                 *)
(***************************************************************************)
Min(a, b) == IF a < b THEN a ELSE b

Max(a, b) == IF a > b THEN a ELSE b

\* the length penalty without its second tier
LengthPenalty_one_tier(word_count) == IF word_count < 500 THEN 30 ELSE 0

\* the penalty for the length of the transcript
LengthPenalty(word_count) ==
    IF word_count < 500 THEN 30 ELSE IF word_count < 1000 THEN 10 ELSE 0

\* calculate_quality_score with the clamp written min(0.0, max(1.0, score))
calculate_quality_score_clamp(transcript) ==
    IF ~Truthy(transcript) THEN 0
    ELSE Min(0, Max(100, 100 - LengthPenalty(WordCount(transcript[1]))))

\* len(transcript.split('.')): one more piece than there are dots
SentenceCount(t) == SumRuns(t, {"word."}) + 3 * SumRuns(t, {"..."}) + 1

\* sum(len(s.split()) for s in sentences): a token of dots alone leaves no
\* word behind
SentenceWords(t) == SumRuns(t, Tokens \ {"..."})

\* avg_sentence_length < 5
ShortSentences(t) == SentenceWords(t) < 5 * SentenceCount(t)

\* avg_sentence_length > 30
LongSentences(t) == SentenceWords(t) > 30 * SentenceCount(t)

\* calculate_quality_score testing "transcript is None" for "not transcript":
\* the empty string is scored like a text
calculate_quality_score_none_only(transcript) ==
    IF transcript = NoneOpt THEN 0
    ELSE LET t == transcript[1]
             score == 100 - LengthPenalty(WordCount(t))
                          - (IF SumRuns(t, {"[inaudible]"}) > 0 THEN 10 ELSE 0)
                          - (IF SumRuns(t, {"[music]"}) > 0 THEN 5 ELSE 0)
                          - (IF SumRuns(t, {"..."}) > 10 THEN 5 ELSE 0)
                          - (IF ShortSentences(t) \/ LongSentences(t)
                             THEN 10 ELSE 0)
         IN  Max(0, Min(100, score))

\* calculate_quality_score with score += 0.1 for "[inaudible]"
calculate_quality_score_bonus(transcript) ==
    IF ~Truthy(transcript) THEN 0
    ELSE LET t == transcript[1]
             score == 100 - LengthPenalty(WordCount(t))
                          + (IF SumRuns(t, {"[inaudible]"}) > 0 THEN 10 ELSE 0)
                          - (IF SumRuns(t, {"[music]"}) > 0 THEN 5 ELSE 0)
                          - (IF SumRuns(t, {"..."}) > 10 THEN 5 ELSE 0)
                          - (IF ShortSentences(t) \/ LongSentences(t)
                             THEN 10 ELSE 0)
         IN  Max(0, Min(100, score))

\* YouTubePodcastDetector.calculate_quality_score, in hundredths
calculate_quality_score(transcript) ==
    IF ~Truthy(transcript) THEN 0
    ELSE LET t == transcript[1]
             word_count == WordCount(t)
             inaudible == SumRuns(t, {"[inaudible]"}) > 0
             music == SumRuns(t, {"[music]"}) > 0
             ellipses == SumRuns(t, {"..."})
             score == 100 - LengthPenalty(word_count)
                          - (IF inaudible THEN 10 ELSE 0)
                          - (IF music THEN 5 ELSE 0)
                          - (IF ellipses > 10 THEN 5 ELSE 0)
                          - (IF ShortSentences(t) \/ LongSentences(t)
                             THEN 10 ELSE 0)
         IN  Max(0, Min(100, score))

(***************************************************************************)
(* transcript_fetcher.py: the disk cache                                   *)
(*                                                                         *)
(* cache_dir is the content of the cache directory: its *.json files in    *)
(* ascending order of last-modified time, each [path, data].  One token of *)
(* text stands for one megabyte of record, so st_size is in megabytes.     *)
(***************************************************************************)
AlnumChars == {"a", "b", "p", "q"}

\* c if c.isalnum() or c in " -_" else "_"
SafeChar(c) == IF c \in AlnumChars \/ c \in {" ", "-", "_"} THEN c ELSE "_"

\* "".join(... for c in name)
Sanitize(name) == [i \in 1..Len(name) |-> SafeChar(name[i])]

\* UnifiedTranscriptFetcher._get_cache_path: cache_dir / safe_podcast /
\* f"{safe_episode}.json"
get_cache_path(podcast_name, episode_title) ==
    <<Sanitize(podcast_name), Sanitize(episode_title) \o <<".json">>>>

\* a component of the path is longer than the filesystem allows: stat() and
\* open() fail with OSError (ENAMETOOLONG)
NameTooLong(path) == \E i \in 1..Len(path) : Len(path[i]) > NAME_MAX

FileIndex(dir, path) == {i \in 1..Len(dir) : dir[i].path = path}

\* Path.exists() of a path whose name the filesystem accepts
FileExists(dir, path) == FileIndex(dir, path) # {}

\* json.load of the most recently written file, whatever the path
ReadJson_newest(dir, path) == dir[Len(dir)].data

\* json.load of the file at path
ReadJson(dir, path) == dir[CHOOSE i \in FileIndex(dir, path) : TRUE].data

\* open(path, 'w') and json.dump: the file is (re)written and becomes the
\* most recently modified one
WriteJson(dir, path, data) ==
    Append(SelectSeq(dir, LAMBDA f : f.path # path),
           [path |-> path, data |-> data])

\* f.stat().st_size
st_size(file) == WordCount(file.data.text)

RECURSIVE TotalSize(_)
\* sum(f.stat().st_size for f in self.cache_dir.rglob("*.json"))
TotalSize(dir) ==
    IF dir = << >> THEN 0 ELSE st_size(Head(dir)) + TotalSize(Tail(dir))

RECURSIVE RemoveNewest(_, _, _)
\* the loop with cache_files.pop() for cache_files.pop(0)
RemoveNewest(cache_files, total_size, max_size) ==
    IF total_size > max_size /\ cache_files # << >>
    THEN RemoveNewest(SubSeq(cache_files, 1, Len(cache_files) - 1),
                      total_size - st_size(cache_files[Len(cache_files)]),
                      max_size)
    ELSE cache_files

RECURSIVE RemoveOldest(_, _, _)
\* while total_size > max_size and cache_files: unlink cache_files.pop(0)
RemoveOldest(cache_files, total_size, max_size) ==
    IF total_size > max_size /\ cache_files # << >>
    THEN RemoveOldest(Tail(cache_files), total_size - st_size(Head(cache_files)),
                      max_size)
    ELSE cache_files

\* _manage_cache_size with "if" for "while": only the oldest file is removed
manage_cache_size_once(cfg, dir) ==
    IF TotalSize(dir) > cfg.max_cache_size_mb THEN Tail(dir) ELSE dir

\* UnifiedTranscriptFetcher._manage_cache_size: the directory it leaves
manage_cache_size(cfg, dir) ==
    LET total_size == TotalSize(dir)
        max_size == cfg.max_cache_size_mb
    IN  IF total_size > max_size
        THEN RemoveOldest(dir, total_size, max_size)
        ELSE dir

Return(v) == [raised |-> FALSE, value |-> v, exc |-> None]

Raise(msg) == [raised |-> TRUE, value |-> NoneOpt, exc |-> msg]

\* _check_cache without quality_score=data['quality_score']: the field keeps
\* its default 0.0
check_cache_default_score(cfg, dir, podcast_name, episode_title) ==
    IF ~cfg.cache_transcripts THEN Return(NoneOpt)
    ELSE LET cache_file == get_cache_path(podcast_name, episode_title) IN
         IF NameTooLong(cache_file) THEN Raise("File name too long")
         ELSE IF ~FileExists(dir, cache_file) THEN Return(NoneOpt)
         ELSE LET data == ReadJson(dir, cache_file) IN
              Return(Some(TranscriptResult(Some(data.text),
                                           SourceOfValue(data.source), 0,
                                           data.metadata)))

\* UnifiedTranscriptFetcher._check_cache: Optional[TranscriptResult], or the
\* exception of cache_file.exists(), which is outside the try
check_cache(cfg, dir, podcast_name, episode_title) ==
    IF ~cfg.cache_transcripts THEN Return(NoneOpt)
    ELSE LET cache_file == get_cache_path(podcast_name, episode_title) IN
         IF NameTooLong(cache_file) THEN Raise("File name too long")
         ELSE IF ~FileExists(dir, cache_file) THEN Return(NoneOpt)
         ELSE LET data == ReadJson(dir, cache_file) IN
              Return(Some(TranscriptResult(Some(data.text), SourceOfValue(data.source),
                                           data.quality_score, data.metadata)))

\* _cache_transcript up to the end of the with block: the directory when
\* _manage_cache_size is about to run
cache_write(cfg, dir, podcast_name, episode_title, result) ==
    IF ~cfg.cache_transcripts \/ ~Truthy(result.text) THEN dir
    ELSE LET cache_file == get_cache_path(podcast_name, episode_title)
             cache_data == [text |-> result.text[1],
                            source |-> SourceValue(result.source),
                            quality_score |-> result.quality_score,
                            metadata |-> result.metadata]
         IN  IF NameTooLong(cache_file)
             THEN dir   \* open() raises inside the try: logged, nothing written
             ELSE WriteJson(dir, cache_file, cache_data)

\* UnifiedTranscriptFetcher._cache_transcript: the directory it leaves
cache_transcript(cfg, dir, podcast_name, episode_title, result) ==
    IF \/ ~cfg.cache_transcripts \/ ~Truthy(result.text)
       \/ NameTooLong(get_cache_path(podcast_name, episode_title))
    THEN dir
    ELSE manage_cache_size(cfg, cache_write(cfg, dir, podcast_name,
                                            episode_title, result))

\* the oldest.unlink() calls a _cache_transcript makes
cache_unlinks(cfg, dir, podcast_name, episode_title, result) ==
    LET written == cache_write(cfg, dir, podcast_name, episode_title, result)
        left == cache_transcript(cfg, dir, podcast_name, episode_title, result)
    IN  [i \in 1..(Len(written) - Len(left)) |-> "unlink"]

(***************************************************************************)
(* youtube_detector.py: the subtitle retriever                             *)
(*                                                                         *)
(* yt describes what yt-dlp does for the video: raises (extract_info       *)
(* raises), files (the languages for which a <id>.<lang>.vtt file was      *)
(* written), kind (whether the track written is manual or auto: both are   *)
(* written under the same file name) and parsed (what _parse_vtt_file      *)
(* returns for the file).                                                  *)
(***************************************************************************)
YouTubeUrl == "https://www.youtube.com/watch?v=dQw4w9WgXcQ"

OtherUrl == "https://example.com/x"

\* YouTubePodcastDetector.extract_video_id
extract_video_id(url) == IF url = YouTubeUrl THEN "dQw4w9WgXcQ" ELSE None

RECURSIVE FirstWithFile(_, _)
\* for lang in languages: if os.path.exists(f"{subtitle_file}.{lang}.vtt"): break
FirstWithFile(languages, files) ==
    IF languages = << >> THEN None
    ELSE IF Head(languages) \in files THEN Head(languages)
    ELSE FirstWithFile(Tail(languages), files)

Unavailable(metadata) ==
    TranscriptResult(NoneOpt, "NOT_AVAILABLE", 0, metadata)

\* YouTubePodcastDetector.fetch_youtube_transcript
fetch_youtube_transcript(video_url, languages, yt) ==
    LET video_id == extract_video_id(video_url)
        \* the loop for manual subtitles and the loop for auto-generated ones
        \* test the same file name
        manual_lang == FirstWithFile(languages, yt.files)
        auto_lang == IF manual_lang = None
                     THEN FirstWithFile(languages, yt.files) ELSE None
        source == IF manual_lang # None THEN "YOUTUBE_MANUAL"
                  ELSE IF auto_lang # None THEN "YOUTUBE_AUTO"
                  ELSE "NOT_AVAILABLE"
        quality_score == IF manual_lang # None THEN 100
                         ELSE IF auto_lang # None THEN 80 ELSE 0
        subtitle_text == yt.parsed
    IN  IF video_id = None
        THEN Unavailable([error |-> "Invalid YouTube URL"])
        ELSE IF yt.raises
        THEN Unavailable([error |-> "yt-dlp error"])
        ELSE IF source # "NOT_AVAILABLE" /\ Truthy(subtitle_text)
        THEN TranscriptResult(subtitle_text, source, quality_score,
                 [video_id |-> video_id,
                  word_count |-> WordCount(subtitle_text[1]),
                  youtube_url |-> video_url])
        ELSE Unavailable([error |-> "No subtitles available",
                          video_id |-> video_id])

(***************************************************************************)
(* transcript_fetcher.py: the orchestrator                                 *)
(*                                                                         *)
(* env describes the collaborators during one call: located (the video     *)
(* search finds the episode), yt (see above), download_ok (the downloader  *)
(* returns a path), api_key (the hosted backend finds its credentials),    *)
(* transcript (what the active backend yields: None, "" or a text).        *)
(* Every stage returns [value, calls]: its result and the collaborators it *)
(* invoked, in order.                                                      *)
(***************************************************************************)
Stage(value, calls) == [value |-> value, calls |-> calls]

(***************************************************************************)
(* openai_whisper_transcriber.py: the hosted speech backend                *)
(*                                                                         *)
(* audio is the file handed over: exists and its size in megabytes.  api   *)
(* describes the service during the call: raises (the request fails), text *)
(* (the text of its response) and save_ok (the transcript file can be      *)
(* written).                                                               *)
(***************************************************************************)
\* OpenAIWhisperTranscriber.MAX_FILE_SIZE, in megabytes
MAX_FILE_SIZE == 25

ApiCall == "client.audio.transcriptions.create"

\* _transcribe_large_file uploading the file as it is
transcribe_large_file_upload(audio, api) ==
    IF api.raises THEN Stage(NoneOpt, <<ApiCall>>)
    ELSE Stage(Some(api.text), <<ApiCall>>)

\* OpenAIWhisperTranscriber._transcribe_large_file
transcribe_large_file(audio, api) == Stage(NoneOpt, << >>)

\* transcribe without the test of the file size
transcribe_unchecked(audio, api) ==
    IF ~audio.exists THEN Stage(NoneOpt, << >>)
    ELSE IF api.raises \/ ~api.save_ok THEN Stage(NoneOpt, <<ApiCall>>)
    ELSE Stage(Some(api.text), <<ApiCall>>)

\* OpenAIWhisperTranscriber.transcribe: Optional[str] and the requests made
transcribe(audio, api) ==
    IF ~audio.exists THEN Stage(NoneOpt, << >>)
    ELSE IF audio.size > MAX_FILE_SIZE THEN transcribe_large_file(audio, api)
    \* an exception of the request or of _save_transcript is caught
    ELSE IF api.raises \/ ~api.save_ok THEN Stage(NoneOpt, <<ApiCall>>)
    ELSE Stage(Some(api.text), <<ApiCall>>)

\* _try_youtube_transcript searching a second time when the first search
\* finds no video
try_youtube_transcript_retry(cfg, podcast_rss_url, episode_title, env) ==
    IF env.located
    THEN Stage(NoneOpt, <<"check_youtube_availability">>)
    ELSE Stage(NoneOpt, <<"check_youtube_availability",
                          "check_youtube_availability">>)

\* UnifiedTranscriptFetcher._try_youtube_transcript: Optional[TranscriptResult]
try_youtube_transcript(cfg, podcast_rss_url, episode_title, env) ==
    IF env.located
    THEN IF "youtube_languages" \in TranscriptConfigFields
         THEN Stage(Some(fetch_youtube_transcript(YouTubeUrl, <<"en">>, env.yt)),
                    <<"check_youtube_availability", "fetch_youtube_transcript">>)
         \* self.config.youtube_languages raises AttributeError before the
         \* call is made; the except clause returns None
         ELSE Stage(NoneOpt, <<"check_youtube_availability">>)
    ELSE Stage(NoneOpt, <<"check_youtube_availability">>)

\* open(os.path.join('./transcripts', f"{episode_title}.txt"), 'w') fails: the
\* title names a directory that does not exist, or is too long
SideFileUnwritable(episode_title) ==
    \/ \E i \in 1..Len(episode_title) : episode_title[i] = "/"
    \/ Len(episode_title) + 1 > NAME_MAX

\* the source tag _try_whisper_transcript gives a transcript
WhisperSource(cfg) ==
    IF cfg.use_openai_whisper THEN "WHISPER_LOCAL"
    ELSE IF cfg.use_remote_whisper THEN "WHISPER_REMOTE"
    ELSE "WHISPER_LOCAL"

\* the backend choice testing use_remote_whisper before use_openai_whisper
BackendCall_remote_first(cfg) ==
    IF cfg.use_remote_whisper THEN "_transcribe_remote"
    ELSE IF cfg.use_openai_whisper THEN "OpenAIWhisperTranscriber.transcribe"
    ELSE "EpisodeTranscriber.transcribe"

\* the call of the backend the configuration selects
BackendCall(cfg) ==
    IF cfg.use_openai_whisper THEN "OpenAIWhisperTranscriber.transcribe"
    ELSE IF cfg.use_remote_whisper THEN "_transcribe_remote"
    ELSE "EpisodeTranscriber.transcribe"

\* UnifiedTranscriptFetcher._try_whisper_transcript
try_whisper_transcript(cfg, audio_url, episode_title, podcast_name, env) ==
    LET download == <<"download_single_episode">>
        Failed(msg, calls) == Stage(Unavailable([error |-> msg]), calls)
    IN  IF ~env.download_ok
        THEN Failed("Failed to download audio file", download)
        ELSE IF cfg.use_openai_whisper /\ ~env.api_key
        THEN Failed("OpenAI API key required. Provide via api_key or credentials_file.",
                    download)
        ELSE LET calls == Append(download, BackendCall(cfg)) IN
             IF cfg.use_openai_whisper /\ Truthy(env.transcript)
                /\ SideFileUnwritable(episode_title)
             THEN Failed("No such file or directory", calls)
             ELSE IF Truthy(env.transcript)
             THEN Stage(TranscriptResult(env.transcript, WhisperSource(cfg),
                            calculate_quality_score(env.transcript),
                            [audio_file |-> "audio.mp3",
                             transcript_file |-> "transcript.txt",
                             model |-> "whisper-1"]),
                        Append(calls, "calculate_quality_score"))
             ELSE Failed("Transcription failed - no output", calls)

\* the outcome of a call: raised (an exception reaches the caller), value
\* (the Optional result returned), exc (the exception that ended the stage
\* the call ended in, None when that stage ended normally), calls (the
\* collaborators invoked, in order) and dir (the cache directory it leaves)
Outcome(raised, value, exc, calls, dir) ==
    [raised |-> raised, value |-> value, exc |-> exc, calls |-> calls,
     dir |-> dir]

\* the exception a failed speech stage reports in its result
StageError(result) ==
    IF result.source = "NOT_AVAILABLE" THEN result.metadata.error ELSE None

\* get_transcript without its cache lookup
CacheHit_never(cfg, cached) == FALSE

\* if cached: return cached
CacheHit(cfg, cached) == cfg.cache_transcripts /\ cached.value # NoneOpt

\* if not result or not result.text: fall back to Whisper
NeedsFallback(youtube) ==
    youtube.value = NoneOpt \/ ~Truthy(youtube.value[1].text)

\* if result and result.text and self.config.cache_transcripts
ShouldCache(cfg, result) == Truthy(result.text) /\ cfg.cache_transcripts

\* the write-back without the tests of result.text: failures are stored too
StoreResult_always(cfg, dir, podcast_name, episode_title, result) ==
    LET cache_file == get_cache_path(podcast_name, episode_title)
        cache_data ==
            [text |-> IF result.text = NoneOpt THEN << >> ELSE result.text[1],
             source |-> SourceValue(result.source),
             quality_score |-> result.quality_score,
             metadata |-> result.metadata]
    IN  IF cfg.cache_transcripts /\ ~NameTooLong(cache_file)
        THEN manage_cache_size(cfg, WriteJson(dir, cache_file, cache_data))
        ELSE dir

\* the cache directory after the write-back at the end of get_transcript
StoreResult(cfg, dir, podcast_name, episode_title, result) ==
    IF ShouldCache(cfg, result)
    THEN cache_transcript(cfg, dir, podcast_name, episode_title, result)
    ELSE dir

\* UnifiedTranscriptFetcher.get_transcript
get_transcript(cfg, dir, podcast_name, episode_title, episode_audio_url, podcast_rss_url, env) ==
    LET cached == check_cache(cfg, dir, podcast_name, episode_title)
        lookup == IF cfg.cache_transcripts THEN <<"check_cache">> ELSE << >>
    IN  IF cfg.cache_transcripts /\ cached.raised
        THEN Outcome(TRUE, NoneOpt, cached.exc, lookup, dir)
        ELSE IF CacheHit(cfg, cached)
        THEN Outcome(FALSE, cached.value, None, lookup, dir)
        ELSE
        LET youtube ==
                IF cfg.prefer_youtube /\ podcast_rss_url # None
                THEN try_youtube_transcript(cfg, podcast_rss_url,
                                            episode_title, env)
                ELSE Stage(NoneOpt, << >>)
            fallback == NeedsFallback(youtube)
            whisper ==
                IF episode_audio_url # None
                THEN try_whisper_transcript(cfg, episode_audio_url,
                                            episode_title, podcast_name, env)
                ELSE Stage(Unavailable([error |-> "No audio URL provided"]),
                           << >>)
            result == IF fallback THEN whisper.value ELSE youtube.value[1]
            calls == lookup \o youtube.calls
                     \o (IF fallback THEN whisper.calls ELSE << >>)
            exc == IF fallback /\ episode_audio_url # None
                   THEN StageError(result) ELSE None
        IN  Outcome(FALSE, Some(result), exc,
                    IF ShouldCache(cfg, result)
                    THEN Append(calls, "cache_transcript") ELSE calls,
                    StoreResult(cfg, dir, podcast_name, episode_title, result))

(***************************************************************************)
(* The inputs of the model                                                 *)
(***************************************************************************)
\* largest text, in tokens, that a backend or a caller hands over
MaxTextLen == 2

Podcasts == {<<"p">>}

\* the last title is longer than a file name may be; the second and the
\* third differ in a character that sanitizing replaces
Episodes == {<<"a">>, <<"b">>, <<"a", "/", "b">>, <<"a", "_", "b">>,
             <<"a", "a", "a", "a">>}

\* the titles get_transcript is called with
Titles == {<<"a">>, <<"a", "/", "b">>, <<"a", "a", "a", "a">>}

AudioUrl == "https://example.com/audio.mp3"

RssUrl == "https://example.com/feed.rss"

\* "word " * 600
ScenarioText == <<Run("word", 600)>>

Texts ==
    {<<Run("word", n)>> : n \in 1..MaxTextLen}
    \cup {<<Run("word.", 1), Run("[inaudible]", 1)>>}
    \cup {ScenarioText}

\* Optional[str]: None, "" or a text
OptTexts == {NoneOpt, Some(<< >>)} \cup {Some(t) : t \in Texts}

\* what a speech backend yields: None, "", a clean text, a noisy one or the
\* 600-word text
BackendOutputs ==
    {NoneOpt, Some(<< >>), Some(<<Run("word", 1)>>),
     Some(<<Run("word.", 1), Run("[inaudible]", 1)>>), Some(ScenarioText)}

Languages == {"en", "de"}

\* what yt-dlp does for a video: where it raises or writes no file, there is
\* no track and nothing to parse
YtEnvs ==
    {y \in [raises : BOOLEAN, files : SUBSET Languages,
            kind : {"manual", "auto"},
            parsed : {NoneOpt, Some(<< >>), Some(<<Run("word", 1)>>)}] :
        (y.raises \/ y.files = {})
            => (y.files = {} /\ y.kind = "manual" /\ y.parsed = NoneOpt)}

\* no subtitle file is written
NoSubtitles ==
    [raises |-> FALSE, files |-> {}, kind |-> "manual", parsed |-> NoneOpt]

\* a manual English track with text
Subtitles ==
    [raises |-> FALSE, files |-> {"en"}, kind |-> "manual",
     parsed |-> Some(<<Run("word", 1)>>)]

Env(located, yt, download_ok, api_key, transcript) ==
    [located |-> located, yt |-> yt, download_ok |-> download_ok,
     api_key |-> api_key, transcript |-> transcript]

\* the collaborators of one get_transcript call: what a collaborator would
\* do is fixed where the one before it fails, since it is then not asked
Envs ==
    {Env(v[1], v[2], s[1], s[2], s[3]) :
        v \in {<<FALSE, NoSubtitles>>, <<TRUE, NoSubtitles>>,
               <<TRUE, Subtitles>>},
        s \in {<<FALSE, TRUE, NoneOpt>>, <<TRUE, FALSE, NoneOpt>>}
              \cup {<<TRUE, TRUE, t>> : t \in BackendOutputs}}

\* the results a caller hands to _cache_transcript
PutResults ==
    {[TranscriptResult(t, IF Truthy(t) THEN "YOUTUBE_AUTO" ELSE "NOT_AVAILABLE",
                       calculate_quality_score(t), [model |-> "whisper-1"])
        EXCEPT !.language = lang] :
        t \in OptTexts, lang \in {None, "en"}}

\* largest audio file, in megabytes
MaxFileMb == 30

\* the audio files handed to the hosted backend
Audios == [exists : BOOLEAN, size : 0..MaxFileMb]

\* what the service does: where the request fails there is no response
Apis ==
    {[raises |-> TRUE, text |-> << >>, save_ok |-> TRUE]}
    \cup [raises : {FALSE}, text : {<< >>} \cup Texts, save_ok : BOOLEAN]

\* largest number of plain words of a text handed to the scorer
MaxWords == 1000

\* the word counts next to the thresholds of the scorer
ScoreWordCounts ==
    {n \in 1..MaxWords : \E t \in {5, 30, 500, 1000} : n - t \in -2..1}

\* the texts handed to the scorer: an optional noise marker, an optional
\* sentence and a run of plain words
ScoreTexts ==
    {m \o d \o <<Run("word", n)>> :
        m \in {<< >>, <<Run("[inaudible]", 1)>>, <<Run("[music]", 1)>>},
        d \in {<< >>, <<Run("word.", 1)>>, <<Run("word.", 100)>>},
        n \in ScoreWordCounts}

(***************************************************************************)
(* youtube_detector.py: _parse_vtt_file                                    *)
(*                                                                         *)
(* A line of a subtitle file is a sequence of characters; a character is   *)
(* the blank Sp or a whole token, and two tokens are never adjacent.       *)
(***************************************************************************)
\* most lines of a subtitle file
MaxVttLines == 3

Sp == " "

\* tokens that consist of decimal digits only
DigitTokens == {"1", "2024"}

\* tokens that contain the arrow of a timing line
ArrowTokens == {"-->"}

\* tokens that carry a cue time: the two ends of a timing line and a word
\* with an inline word-timing tag
TimeTokens == {"00:01", "00:02", "so<00:01>me"}

\* str.strip() at the left end
LStrip(line) ==
    LET first == CHOOSE i \in 1..(Len(line) + 1) :
                     /\ \A j \in 1..(i - 1) : line[j] = Sp
                     /\ (i <= Len(line) => line[i] # Sp) IN
    SubSeq(line, first, Len(line))

\* str.strip() at the right end
RStrip(line) ==
    LET last_ == CHOOSE i \in 0..Len(line) :
                     /\ \A j \in (i + 1)..Len(line) : line[j] = Sp
                     /\ (i >= 1 => line[i] # Sp) IN
    SubSeq(line, 1, last_)

\* line.strip()
Strip(line) == LStrip(RStrip(line))

\* str.split(): the tokens between runs of blanks
Split(text) == SelectSeq(text, LAMBDA c : c # Sp)

RECURSIVE Join(_)
\* ' '.join(parts): the parts with one blank between two of them
Join(parts) ==
    IF parts = << >> THEN << >>
    ELSE IF Len(parts) = 1 THEN parts[1]
    ELSE parts[1] \o <<Sp>> \o Join(Tail(parts))

\* line.startswith('WEBVTT')
StartsWithWebVtt(line) == line # << >> /\ line[1] = "WEBVTT"

\* '-->' in line
HasArrow(line) == \E i \in 1..Len(line) : line[i] \in ArrowTokens

\* line.isdigit()
IsDigit(line) == Len(line) = 1 /\ line[1] \in DigitTokens

\* the test that decides whether a stripped line is a text line
IsTextLine(line) ==
    /\ line # << >>
    /\ ~StartsWithWebVtt(line)
    /\ ~HasArrow(line)
    /\ ~IsDigit(line)

\* _parse_vtt_file of a file that can be read; a line of the file is
\* [role, chars], and only chars is in the file
parse_vtt_file(lines) ==
    LET stripped == [i \in 1..Len(lines) |-> Strip(lines[i].chars)]
        text_lines == SelectSeq(stripped, IsTextLine)
        full_text == Join(text_lines) IN
    Join([i \in 1..Len(Split(full_text)) |-> <<Split(full_text)[i]>>])

(***************************************************************************)
(* youtube_detector.py: search_youtube_for_episode                         *)
(*                                                                         *)
(* A string is a sequence of one-character strings.                        *)
(***************************************************************************)
\* most entries a search returns (the code asks for ytsearch5)
MaxEntries == 2

UpperCase ==
    <<"A", "B", "C", "D", "E", "F", "G", "H", "I", "J", "K", "L", "M",
      "N", "O", "P", "Q", "R", "S", "T", "U", "V", "W", "X", "Y", "Z">>

LowerCase ==
    <<"a", "b", "c", "d", "e", "f", "g", "h", "i", "j", "k", "l", "m",
      "n", "o", "p", "q", "r", "s", "t", "u", "v", "w", "x", "y", "z">>

\* str.lower()
Lower(str) ==
    [i \in 1..Len(str) |->
        IF \E k \in 1..26 : UpperCase[k] = str[i]
        THEN LowerCase[CHOOSE k \in 1..26 : UpperCase[k] = str[i]]
        ELSE str[i]]

\* needle in hay
Contains(hay, needle) ==
    \E i \in 0..(Len(hay) - Len(needle)) :
        SubSeq(hay, i + 1, i + Len(needle)) = needle

\* str[:n]
Prefix(str, n) == SubSeq(str, 1, Min(n, Len(str)))

\* str.split(): the maximal runs of non-blank characters, in order
StrSplit(str) ==
    LET starts == {i \in 1..Len(str) :
                      str[i] # Sp /\ (i = 1 \/ str[i - 1] = Sp)}
        nth(n) == CHOOSE i \in starts :
                      Cardinality({k \in starts : k < i}) = n - 1
        stop(i) == CHOOSE j \in i..Len(str) :
                      /\ \A k \in i..j : str[k] # Sp
                      /\ (j = Len(str) \/ str[j + 1] = Sp) IN
    [n \in 1..Cardinality(starts) |-> SubSeq(str, nth(n), stop(nth(n)))]

\* the podcast names of the youtube_channels table
youtube_channels ==
    {<<"T", "h", "e", " ", "J", "o", "e", " ", "R", "o", "g", "a", "n",
       " ", "E", "x", "p", "e", "r", "i", "e", "n", "c", "e">>,
     <<"L", "e", "x", " ", "F", "r", "i", "d", "m", "a", "n", " ", "P",
       "o", "d", "c", "a", "s", "t">>,
     <<"T", "h", "e", " ", "T", "i", "m", " ", "F", "e", "r", "r", "i",
       "s", "s", " ", "S", "h", "o", "w">>,
     <<"H", "u", "b", "e", "r", "m", "a", "n", " ", "L", "a", "b">>,
     <<"T", "h", "e", " ", "D", "a", "i", "l", "y">>,
     <<"T", "h", "i", "s", " ", "A", "m", "e", "r", "i", "c", "a", "n",
       " ", "L", "i", "f", "e">>,
     <<"C", "o", "n", "a", "n", " ", "O", "'", "B", "r", "i", "e", "n",
       " ", "N", "e", "e", "d", "s", " ", "a", " ", "F", "r", "i", "e",
       "n", "d">>,
     <<"T", "h", "e", " ", "D", "i", "a", "r", "y", " ", "O", "f", " ",
       "A", " ", "C", "E", "O">>,
     <<"A", "l", "l", "-", "I", "n", " ", "P", "o", "d", "c", "a", "s",
       "t">>,
     <<"M", "y", " ", "F", "i", "r", "s", "t", " ", "M", "i", "l", "l",
       "i", "o", "n">>,
     <<"L", "e", "n", "n", "y", "'", "s", " ", "P", "o", "d", "c", "a",
       "s", "t">>,
     <<"L", "e", "n", "n", "y", "b", "o", "t">>}

\* the words of the episode title that take part in the match: the first 5
episode_words(episode_title) ==
    LET words == StrSplit(Lower(episode_title)) IN
    SubSeq(words, 1, Min(5, Len(words)))

\* sum(1 for word in episode_words if len(word) > 3 and word in video_title)
match_count(episode_title, video_title) ==
    LET words == episode_words(episode_title) IN
    Cardinality({i \in 1..Len(words) :
                    Len(words[i]) > 3 /\ Contains(video_title, words[i])})

\* the matching rule with one matching word
good_match_one_word(episode_title, title) ==
    \/ match_count(episode_title, Lower(title)) >= 1
    \/ Contains(Lower(title), Prefix(Lower(episode_title), 30))

\* the matching rule: two of the words, or the first 30 characters
good_match(episode_title, title) ==
    \/ match_count(episode_title, Lower(title)) >= 2
    \/ Contains(Lower(title), Prefix(Lower(episode_title), 30))

\* f"https://www.youtube.com/watch?v={entry.get('id')}"
WatchUrl(id) == <<"https://www.youtube.com/watch?v=", id>>

\* search_youtube_for_episode; search is what ydl.extract_info does: it
\* raises, or returns results that have no entries (None), or entries, each
\* None or a video with a title and an id
search_youtube_for_episode(podcast_name, episode_title, search) ==
    IF search.raises \/ search.results = NoneOpt THEN NoneOpt
    ELSE
        LET entries == search.results[1]
            accepted == {i \in 1..Len(entries) :
                            /\ entries[i] # NoneOpt
                            /\ good_match(episode_title, entries[i][1].title)}
            first == CHOOSE i \in accepted : \A j \in accepted : i <= j IN
        IF accepted # {} THEN Some(WatchUrl(entries[first][1].id))
        ELSE IF Contains(Lower(podcast_name), <<"l", "e", "n", "n", "y">>)
        THEN IF entries # << >> /\ entries[1] # NoneOpt
             THEN Some(WatchUrl(entries[1][1].id))
             ELSE NoneOpt
        ELSE NoneOpt

(***************************************************************************)
(* pages/tools/retry.py: the retry decorator                               *)
(***************************************************************************)
\* largest num_retries a function is wrapped with
MaxRetries == 4

\* what one invocation of the wrapped function does: it returns a value or
\* raises an exception
FuncReturns == {[raises |-> FALSE, v |-> v] : v \in {"x", "y"}}

FuncRaises == {[raises |-> TRUE, v |-> e] : e \in {"ValueError", "TypeError"}}

\* the wrapper's activation: its position, the loop counter, the number of
\* invocations of the wrapped function so far, the exceptions they raised
\* in order, and how the wrapper ended
Frame(pc, num_retries, attempts, invocations, raised, value, exc) ==
    [pc |-> pc, num_retries |-> num_retries, attempts |-> attempts,
     invocations |-> invocations, raised |-> raised, value |-> value,
     exc |-> exc]

\* no activation
IdleFrame == Frame("idle", 0, 0, 0, << >>, NoneOpt, None)

\* wrapper is entered: attempts = 0
wrapper_enter(num_retries) ==
    Frame("while", num_retries, 0, 0, << >>, NoneOpt, None)

\* the try branch: return func(*args, **kwargs)
wrapper_return(f, v) ==
    [f EXCEPT !.pc = "returned", !.invocations = @ + 1, !.value = Some(v)]

\* the except branch that never re-raises
wrapper_except_swallow(f, e) ==
    [f EXCEPT !.pc = "sleep", !.invocations = @ + 1, !.attempts = @ + 1,
              !.raised = Append(@, e)]

\* the except branch: count the attempt, re-raise at the last one, sleep
\* otherwise
wrapper_except(f, e) ==
    LET attempts == f.attempts + 1 IN
    IF attempts = f.num_retries
    THEN [f EXCEPT !.pc = "raised", !.invocations = @ + 1,
                   !.attempts = attempts, !.raised = Append(@, e), !.exc = e]
    ELSE [f EXCEPT !.pc = "sleep", !.invocations = @ + 1,
                   !.attempts = attempts, !.raised = Append(@, e)]

\* the loop condition fails: the wrapper falls off its end and returns None
wrapper_fall_through(f) ==
    [f EXCEPT !.pc = "returned", !.value = NoneOpt]

(***************************************************************************)
(* transcript_fetcher.py: two processes write one cache file               *)
(*                                                                         *)
(* json.dump reaches the file in RecordChunks writes at the writer's own   *)
(* offset; chunk i of a record carries the i-th word of its text, and the  *)
(* other fields are the same in both records.                              *)
(***************************************************************************)
\* writes per record
RecordChunks == 2

Writers == {"w1", "w2"}

\* the word a writer's transcript is made of
WriterToken(w) == IF w = "w1" THEN "word" ELSE "word."

\* the result a writer puts
RaceResult(w) ==
    TranscriptResult(Some([i \in 1..RecordChunks |-> Run(WriterToken(w), 1)]),
                     "YOUTUBE_AUTO", 80, [model |-> "whisper-1"])

\* json.dump(cache_data, f): the chunks of a writer's record
Dump(w) == [i \in 1..RecordChunks |-> WriterToken(w)]

\* bytes of a file that nobody wrote: a write beyond the end leaves them
Hole == "NUL"

\* a write of one chunk at position pos of a file
WriteAt(content, pos, chunk) ==
    [i \in 1..Max(Len(content), pos) |->
        IF i = pos THEN chunk
        ELSE IF i <= Len(content) THEN content[i]
        ELSE Hole]

\* json.load accepts the content: it is one whole record
Loadable(content) ==
    /\ Len(content) = RecordChunks
    /\ \A i \in 1..Len(content) : content[i] # Hole

\* _check_cache of the contested file: None when it does not exist or
\* json.load raises, the record built from its content otherwise
check_cache_file(file) ==
    IF file = NoneOpt THEN NoneOpt
    ELSE IF ~Loadable(file[1]) THEN NoneOpt
    ELSE Some(TranscriptResult(
                  Some([i \in 1..RecordChunks |-> Run(file[1][i], 1)]),
                  "YOUTUBE_AUTO", 80, [model |-> "whisper-1"]))

(***************************************************************************)
(* auth.py: the session and its rate limit; time is in hours               *)
(***************************************************************************)
DEMO_USER_TRANSCRIPT_LIMIT == 2

\* timedelta(days=1)
DAY == 24

\* the latest hour of the clock
MaxNow == 30

\* most transcriptions counted between two daily resets
MaxTranscribed == 4

\* st.session_state
SessionState(authenticated, user_email, transcript_count, last_reset) ==
    [authenticated |-> authenticated, user_email |-> user_email,
     transcript_count |-> transcript_count, last_reset |-> last_reset]

\* _ensure_session_state at time t
NewSession(t) == SessionState(FALSE, None, 0, t)

\* check_rate_limit that resets as soon as 24 hours have passed
check_rate_limit_at_day(s, t) ==
    LET s1 == IF t - s.last_reset >= DAY
              THEN [s EXCEPT !.transcript_count = 0, !.last_reset = t]
              ELSE s
        remaining == DEMO_USER_TRANSCRIPT_LIMIT - s1.transcript_count IN
    [ret |-> <<remaining > 0, remaining>>, session |-> s1]

\* SimpleAuth.check_rate_limit at time t: what it returns and the session
\* it leaves
check_rate_limit(s, t) ==
    LET s1 == IF t - s.last_reset > DAY
              THEN [s EXCEPT !.transcript_count = 0, !.last_reset = t]
              ELSE s
        remaining == DEMO_USER_TRANSCRIPT_LIMIT - s1.transcript_count IN
    [ret |-> <<remaining > 0, remaining>>, session |-> s1]

\* SimpleAuth.can_transcribe at time t
can_transcribe(s, t) ==
    IF ~s.authenticated THEN [ret |-> FALSE, session |-> s]
    ELSE LET checked == check_rate_limit(s, t) IN
         [ret |-> checked.ret[1], session |-> checked.session]

\* SimpleAuth.increment_usage
increment_usage(s) == [s EXCEPT !.transcript_count = @ + 1]

\* SimpleAuth.clear_session_state
clear_session_state(s) ==
    [s EXCEPT !.authenticated = FALSE, !.user_email = None,
              !.transcript_count = 0]

\* login_form with a valid email submitted
login(s) ==
    [s EXCEPT !.authenticated = TRUE, !.user_email = "user@example.com"]

(***************************************************************************)
(* The state machine                                                       *)
(***************************************************************************)
\* what the last operation was and how it ended; arg is the result handed
\* to a put, or the arguments and collaborators of a call that has no key
Last(op, podcast_name, episode_title, arg, out) ==
    [op |-> op, podcast_name |-> podcast_name,
     episode_title |-> episode_title, arg |-> arg, raised |-> out.raised,
     value |-> out.value, exc |-> out.exc, calls |-> out.calls]

NoOutcome == Outcome(FALSE, NoneOpt, None, << >>, << >>)

\* nothing else is running
RestInit ==
    /\ frame = IdleFrame
    /\ contested_file = NoneOpt
    /\ writers = [w \in Writers |-> [pc |-> "idle", pos |-> 0]]
    /\ now = 0
    /\ session_state = NewSession(0)
    /\ transcribed = 0

\* UnifiedTranscriptFetcher.__init__ over an empty cache directory, with the
\* largest budget
Init ==
    /\ config \in {c \in TranscriptConfig :
                      c.max_cache_size_mb = MaxBudgetMb}
    /\ cache_dir = << >>
    /\ last = Last("init", << >>, << >>, NoneOpt, NoOutcome)
    /\ RestInit

\* a call of get_transcript
GetTranscript ==
    \E p \in Podcasts, e \in Titles, a \in {None, AudioUrl},
       r \in {None, RssUrl}, env \in Envs :
        LET out == get_transcript(config, cache_dir, p, e, a, r, env) IN
        /\ cache_dir' = out.dir
        /\ last' = Last("get_transcript", p, e, NoneOpt, out)
        /\ UNCHANGED <<config, restVars>>

\* a call of fetch_youtube_transcript
FetchYoutubeTranscript ==
    \E url \in {YouTubeUrl, OtherUrl},
       languages \in {<<"en">>, <<"de", "en">>}, yt \in YtEnvs :
        /\ last' = Last("fetch_youtube_transcript", << >>, << >>,
                        Some([video_url |-> url, languages |-> languages,
                              yt |-> yt]),
                        Outcome(FALSE,
                                Some(fetch_youtube_transcript(url, languages, yt)),
                                None, << >>, << >>))
        /\ UNCHANGED <<config, cache_dir, restVars>>

Next == GetTranscript

\* the fetcher as the application uses it
Spec == Init /\ [][Next]_vars

NextYouTube == FetchYoutubeTranscript

\* the subtitle retriever alone: any sequence of fetch_youtube_transcript
SpecYouTube == Init /\ [][NextYouTube]_vars

\* a fetcher with the default backend flags, over an empty cache directory
InitCache ==
    /\ config \in {c \in TranscriptConfig :
                      /\ c.prefer_youtube /\ c.use_openai_whisper
                      /\ ~c.use_remote_whisper}
    /\ cache_dir = << >>
    /\ last = Last("init", << >>, << >>, NoneOpt, NoOutcome)
    /\ RestInit

\* a call of _cache_transcript (put)
Put ==
    \E p \in Podcasts, e \in Episodes, r \in PutResults :
        /\ cache_dir' = cache_transcript(config, cache_dir, p, e, r)
        /\ last' = Last("put", p, e, Some(r),
                        Outcome(FALSE, NoneOpt, None,
                                cache_unlinks(config, cache_dir, p, e, r),
                                << >>))
        /\ UNCHANGED <<config, restVars>>

\* a call of _check_cache (get)
Get ==
    \E p \in Podcasts, e \in Episodes :
        LET got == check_cache(config, cache_dir, p, e) IN
        /\ last' = Last("get", p, e, NoneOpt,
                        Outcome(got.raised, got.value, got.exc, << >>, << >>))
        /\ UNCHANGED <<config, cache_dir, restVars>>

NextCache == Put \/ Get

\* the cache alone: any sequence of put and get
SpecCache == InitCache /\ [][NextCache]_vars

\* a call of OpenAIWhisperTranscriber.transcribe
Transcribe ==
    \E audio \in Audios, api \in Apis :
        LET out == transcribe(audio, api) IN
        /\ last' = Last("transcribe", << >>, << >>,
                        Some([audio |-> audio, api |-> api]),
                        Outcome(FALSE, out.value, None, out.calls, << >>))
        /\ UNCHANGED <<config, cache_dir, restVars>>

NextOpenAI == Transcribe

\* the hosted backend alone: any sequence of transcribe calls
SpecOpenAI == InitCache /\ [][NextOpenAI]_vars

\* a call of calculate_quality_score
CalculateQualityScore ==
    \E transcript \in {NoneOpt, Some(<< >>)} \cup {Some(t) : t \in ScoreTexts} :
        /\ last' = Last("calculate_quality_score", << >>, << >>,
                        Some(transcript),
                        Outcome(FALSE,
                                Some(calculate_quality_score(transcript)),
                                None, << >>, << >>))
        /\ UNCHANGED <<config, cache_dir, restVars>>

NextScore == CalculateQualityScore

\* the quality scorer alone
SpecScore == InitCache /\ [][NextScore]_vars

\* a call of a function wrapped with retry(num_retries)
CallWrapped ==
    /\ frame.pc \in {"idle", "returned", "raised"}
    /\ \E num_retries \in 0..MaxRetries : frame' = wrapper_enter(num_retries)
    /\ UNCHANGED <<fetcherVars, raceVars, authVars>>

\* one pass of the while loop: the wrapped function is invoked and returns
\* or raises
Attempt ==
    /\ frame.pc = "while"
    /\ frame.attempts < frame.num_retries
    /\ \E r \in FuncReturns \cup FuncRaises :
           frame' = IF r.raises THEN wrapper_except(frame, r.v)
                                ELSE wrapper_return(frame, r.v)
    /\ UNCHANGED <<fetcherVars, raceVars, authVars>>

\* time.sleep(sleep_between) ends and the loop condition is tested again
Sleep ==
    /\ frame.pc = "sleep"
    /\ frame' = [frame EXCEPT !.pc = "while"]
    /\ UNCHANGED <<fetcherVars, raceVars, authVars>>

\* the loop condition is false
FallThrough ==
    /\ frame.pc = "while"
    /\ ~(frame.attempts < frame.num_retries)
    /\ frame' = wrapper_fall_through(frame)
    /\ UNCHANGED <<fetcherVars, raceVars, authVars>>

NextRetry == CallWrapped \/ Attempt \/ Sleep \/ FallThrough

\* calls of a wrapped function, one after the other
SpecRetry == InitCache /\ [][NextRetry]_vars

\* a line of a subtitle file and what it is in the file's structure
VttLine(role, chars) == [role |-> role, chars |-> chars]

\* the lines subtitle files are made of: the header, a metadata line of the
\* header block, blank lines, a cue index, a timing line, and lines of cue
\* text, one of them a number and one with an inline word-timing tag
VttLines ==
    {VttLine("header", <<"WEBVTT">>),
     VttLine("meta", <<"Kind:", Sp, "captions">>),
     VttLine("blank", << >>),
     VttLine("blank", <<Sp>>),
     VttLine("index", <<"1">>),
     VttLine("timing", <<"00:01", Sp, "-->", Sp, "00:02">>),
     VttLine("text", <<"hello", Sp, Sp, "world">>),
     VttLine("text", <<Sp, "hi", Sp>>),
     VttLine("text", <<"2024">>),
     VttLine("text", <<"so<00:01>me">>)}

\* the subtitle files
VttFiles == UNION {[1..n -> VttLines] : n \in 0..MaxVttLines}

\* the configuration display_episodes builds (app.py), over an empty cache
\* directory
InitApp ==
    /\ config \in {c \in TranscriptConfig :
                      /\ c.prefer_youtube /\ c.use_openai_whisper
                      /\ ~c.use_remote_whisper /\ c.cache_transcripts
                      /\ c.max_cache_size_mb = MaxBudgetMb}
    /\ cache_dir = << >>
    /\ RestInit

\* _parse_vtt_file has been called on some file
InitVtt ==
    /\ InitApp
    /\ \E file \in VttFiles :
           last = Last("call _parse_vtt_file", << >>, << >>, Some(file),
                       NoOutcome)

\* the call of _parse_vtt_file returns
ParseVttFile ==
    /\ last.op = "call _parse_vtt_file"
    /\ last' = Last("_parse_vtt_file", << >>, << >>, last.arg,
                    Outcome(FALSE, Some(parse_vtt_file(last.arg[1])), None,
                            << >>, << >>))
    /\ UNCHANGED <<config, cache_dir, restVars>>

NextVtt == ParseVttFile

\* the subtitle parser alone
SpecVtt == InitVtt /\ [][NextVtt]_vars

\* podcast names: two of the table, one outside it that has "lenny" in it,
\* and one unknown show
SearchPodcasts ==
    {<<"L", "e", "n", "n", "y", "'", "s", " ", "P", "o", "d", "c", "a", "s", "t">>,
     <<"H", "u", "b", "e", "r", "m", "a", "n", " ", "L", "a", "b">>,
     <<"L", "e", "n", "n", "y", " ", "f", "a", "n">>,
     <<"O", "t", "h", "e", "r">>}

\* an episode title of more than 30 characters whose first 5 words are short
LongTitle ==
    <<"w", "e", " ", "d", "o", " ", "i", "t", " ", "a", "s", " ", "i", "f",
      " ", "d", "e", "e", "p", " ", "w", "o", "r", "k", " ", "t", "i", "p",
      "s", " ", "m", "a", "t", "t", "e", "r", " ", "a", " ", "l", "o", "t">>

\* episode titles: three long words, one short word, none, and the long one
SearchTitles ==
    {<<"D", "e", "e", "p", " ", "W", "o", "r", "k", " ", "T", "i", "p", "s">>,
     <<"A", "I">>,
     << >>,
     LongTitle}

\* a video title that holds the first 30 characters of LongTitle
LongVideoTitle ==
    <<"W", "e", " ", "d", "o", " ", "i", "t", " ", "a", "s", " ", "i", "f",
      " ", "d", "e", "e", "p", " ", "w", "o", "r", "k", " ", "t", "i", "p",
      "s", " ", "r", "o", "c", "k">>

\* the videos a search returns
Videos ==
    {[title |-> <<"D", "E", "E", "P", " ", "W", "o", "r", "k">>, id |-> "v1"],
     [title |-> <<"D", "e", "e", "p", "f", "a", "k", "e">>, id |-> "v2"],
     [title |-> <<"R", "a", "i", "n">>, id |-> "v3"],
     [title |-> LongVideoTitle, id |-> "v4"],
     [title |-> << >>, id |-> "v5"]}

\* what the search facility does
Searches ==
    {[raises |-> TRUE, results |-> NoneOpt],
     [raises |-> FALSE, results |-> NoneOpt]}
        \cup {[raises |-> FALSE, results |-> Some(es)] :
                 es \in UNION {[1..n -> {NoneOpt} \cup {Some(v) : v \in Videos}] :
                                  n \in 0..MaxEntries}}

\* search_youtube_for_episode has been called, and the search facility
\* will do one of the things it can do
InitSearch ==
    /\ InitApp
    /\ \E p \in SearchPodcasts, e \in SearchTitles, search \in Searches :
           last = Last("call search_youtube_for_episode", p, e, Some(search),
                       NoOutcome)

\* the call of search_youtube_for_episode returns
SearchYoutubeForEpisode ==
    /\ last.op = "call search_youtube_for_episode"
    /\ LET url == search_youtube_for_episode(last.podcast_name,
                                             last.episode_title, last.arg[1]) IN
       last' = Last("search_youtube_for_episode", last.podcast_name,
                    last.episode_title, last.arg,
                    Outcome(FALSE, url, None, << >>, << >>))
    /\ UNCHANGED <<config, cache_dir, restVars>>

NextSearch == SearchYoutubeForEpisode

\* the source locator alone
SpecSearch == InitSearch /\ [][NextSearch]_vars

\* the reader and the writers of the contested file use the key (p, a)
InitRace ==
    /\ InitApp
    /\ last = Last("init", << >>, << >>, NoneOpt, NoOutcome)

\* a writer's _cache_transcript opens the file: open(cache_file, 'w')
\* creates or truncates it
PutOpen(w) ==
    /\ writers[w].pc = "idle"
    /\ config.cache_transcripts /\ Truthy(RaceResult(w).text)
    /\ contested_file' = Some(<< >>)
    /\ writers' = [writers EXCEPT ![w] = [pc |-> "writing", pos |-> 0]]
    /\ UNCHANGED <<fetcherVars, retryVars, authVars>>

\* json.dump hands the next chunk of the writer's record to the file
PutWrite(w) ==
    /\ writers[w].pc = "writing"
    /\ writers[w].pos < RecordChunks
    /\ contested_file' = Some(WriteAt(contested_file[1], writers[w].pos + 1,
                                  Dump(w)[writers[w].pos + 1]))
    /\ writers' = [writers EXCEPT ![w].pos = @ + 1]
    /\ UNCHANGED <<fetcherVars, retryVars, authVars>>

\* the with block ends, _manage_cache_size finds the cache within budget and
\* the put returns
PutClose(w) ==
    /\ writers[w].pc = "writing"
    /\ writers[w].pos = RecordChunks
    /\ writers' = [writers EXCEPT ![w] = [pc |-> "idle", pos |-> 0]]
    /\ UNCHANGED <<fetcherVars, retryVars, authVars, contested_file>>

\* a _check_cache of the contested key
GetContested ==
    /\ config.cache_transcripts
    /\ last' = Last("get", <<"p">>, <<"a">>, NoneOpt,
                    Outcome(FALSE, check_cache_file(contested_file), None,
                            << >>, << >>))
    /\ UNCHANGED <<config, cache_dir, restVars>>

NextRace ==
    \/ \E w \in Writers : PutOpen(w)
    \/ \E w \in Writers : PutWrite(w)
    \/ \E w \in Writers : PutClose(w)
    \/ GetContested

\* two processes that put under one key, and a reader
SpecRace == InitRace /\ [][NextRace]_vars

\* a new browser session
InitAuth ==
    /\ InitApp
    /\ last = Last("init", << >>, << >>, NoneOpt, NoOutcome)

\* the session after a call that may have reset the daily counter, and the
\* transcriptions counted since that reset
AfterCheck(s) ==
    /\ session_state' = s
    /\ transcribed' = IF s.last_reset # session_state.last_reset
                      THEN 0 ELSE transcribed

\* time passes
Tick ==
    /\ \E d \in {1, DAY} : now + d <= MaxNow /\ now' = now + d
    /\ UNCHANGED <<fetcherVars, retryVars, raceVars, session_state,
                   transcribed>>

\* login_form: a valid email is submitted
SignIn ==
    /\ ~session_state.authenticated
    /\ session_state' = login(session_state)
    /\ UNCHANGED <<fetcherVars, retryVars, raceVars, now, transcribed>>

\* a call of can_transcribe
CanTranscribe ==
    /\ AfterCheck(can_transcribe(session_state, now).session)
    /\ UNCHANGED <<fetcherVars, retryVars, raceVars, now>>

\* display_usage_info of a signed-in session: a call of check_rate_limit
CheckRateLimit ==
    /\ session_state.authenticated
    /\ AfterCheck(check_rate_limit(session_state, now).session)
    /\ UNCHANGED <<fetcherVars, retryVars, raceVars, now>>

\* display_episodes, "Summarize episode" pressed: can_transcribe, the
\* transcript fetch, and increment_usage and check_rate_limit when the fetch
\* gave a transcript
Summarize ==
    /\ transcribed < MaxTranscribed
    /\ LET permitted == can_transcribe(session_state, now)
           counted == check_rate_limit(increment_usage(permitted.session),
                                       now).session IN
       \E fetched \in BOOLEAN :
           IF permitted.ret /\ fetched
           THEN /\ session_state' = counted
                /\ transcribed' =
                       (IF permitted.session.last_reset
                               # session_state.last_reset
                        THEN 0 ELSE transcribed) + 1
           ELSE AfterCheck(permitted.session)
    /\ UNCHANGED <<fetcherVars, retryVars, raceVars, now>>

\* display_usage_info, "Sign Out" pressed: check_rate_limit, then
\* clear_session_state
SignOut ==
    /\ session_state.authenticated
    /\ AfterCheck(clear_session_state(
                      check_rate_limit(session_state, now).session))
    /\ UNCHANGED <<fetcherVars, retryVars, raceVars, now>>

NextAuth ==
    Tick \/ SignIn \/ CanTranscribe \/ CheckRateLimit \/ Summarize \/ SignOut

\* one browser session
SpecAuth == InitAuth /\ [][NextAuth]_vars

(***************************************************************************)
(* Properties                                                              *)
(***************************************************************************)
YouTubeTags == {"YOUTUBE_MANUAL", "YOUTUBE_AUTO"}

WhisperTags == {"WHISPER_LOCAL", "WHISPER_OPENAI", "WHISPER_REMOTE"}

BackendCalls ==
    {"OpenAIWhisperTranscriber.transcribe", "_transcribe_remote",
     "EpisodeTranscriber.transcribe"}

\* one of the collaborators cs was invoked
Uses(calls, cs) == \E i \in 1..Len(calls) : calls[i] \in cs

\* C1: every get_transcript call returns, without raising, a non-null result
\* whose source tag matches the branch taken: the tag stored with a cache
\* hit, a video-subtitle tag when the subtitle stage produced the text, a
\* speech tag when the speech stage produced it, unavailable otherwise.
C1_ReturnsTaggedResult ==
    last.op = "get_transcript" =>
        /\ ~last.raised
        /\ last.value # NoneOpt
        /\ LET r == last.value[1]
               speech == Uses(last.calls, BackendCalls)
               subtitle == Uses(last.calls, {"fetch_youtube_transcript"})
           IN  \/ Truthy(r.text) /\ last.calls = <<"check_cache">>
               \/ Truthy(r.text) /\ speech /\ r.source \in WhisperTags
               \/ Truthy(r.text) /\ ~speech /\ subtitle
                  /\ r.source \in YouTubeTags
               \/ ~Truthy(r.text) /\ r.source = "NOT_AVAILABLE"

\* text is None exactly when the source is unavailable and the score 0.0; a
\* result with text has neither the source unavailable nor the score 0.0
TextIffAvailable(r) ==
    /\ (r.text = NoneOpt)
           <=> (r.source = "NOT_AVAILABLE" /\ r.quality_score = 0)
    /\ r.text # NoneOpt
           => (r.source # "NOT_AVAILABLE" /\ r.quality_score # 0)

\* C2: the result a get_transcript call returned, and in every state the
\* result fetch_youtube_transcript returns for any video, satisfy: text is
\* None exactly when the source is unavailable and the score 0.0.
C2_TextIffAvailable ==
    /\ (last.op = "get_transcript" /\ last.value # NoneOpt)
           => TextIffAvailable(last.value[1])
    /\ \A url \in {YouTubeUrl, OtherUrl},
          languages \in {<<"en">>, <<"de", "en">>}, yt \in YtEnvs :
           TextIffAvailable(fetch_youtube_transcript(url, languages, yt))

\* a get_transcript call returned a transcript of the speech stage, scored
C2_Witness ==
    /\ last.op = "get_transcript"
    /\ last.value # NoneOpt
    /\ Truthy(last.value[1].text)
    /\ Uses(last.calls, {"calculate_quality_score"})
    /\ last.value[1].quality_score = 50

\* C3: when a stage of get_transcript ends with an exception, the call still
\* returns an unavailable result with text None and the exception message in
\* its metadata; no exception reaches the caller.
C3_ExceptionBecomesUnavailable ==
    (last.op = "get_transcript" /\ last.exc # None) =>
        /\ ~last.raised
        /\ last.value = Some(Unavailable([error |-> last.exc]))

\* the position of a collaborator in the fixed order of the stages
StageRank(c) ==
    CASE c = "check_cache" -> 1
      [] c = "check_youtube_availability" -> 2
      [] c = "fetch_youtube_transcript" -> 3
      [] c = "download_single_episode" -> 4
      [] c \in BackendCalls -> 5
      [] c = "calculate_quality_score" -> 6
      [] c = "cache_transcript" -> 7

InOrder(calls) ==
    \A i, j \in 1..Len(calls) :
        i < j => StageRank(calls[i]) < StageRank(calls[j])

SpeechCalls == {"download_single_episode"} \cup BackendCalls

VideoCalls == {"check_youtube_availability", "fetch_youtube_transcript"}

\* the cache holds an entry for the pair
Stored(dir, p, e) ==
    /\ config.cache_transcripts
    /\ ~NameTooLong(get_cache_path(p, e))
    /\ FileExists(dir, get_cache_path(p, e))

\* C4: in every state and for every call, the stages run in the order cache
\* lookup, video location, subtitle fetch, audio download, transcription;
\* a cache hit starts no later stage, subtitle text starts no speech stage,
\* and transcription is preceded by the download.
C4_StagesInOrder ==
    \A p \in Podcasts, e \in Titles, a \in {None, AudioUrl},
       r \in {None, RssUrl}, env \in Envs :
        LET out == get_transcript(config, cache_dir, p, e, a, r, env) IN
        /\ InOrder(out.calls)
        /\ Stored(cache_dir, p, e)
               => ~Uses(out.calls, VideoCalls \cup SpeechCalls)
        /\ (Uses(out.calls, {"fetch_youtube_transcript"})
            /\ Truthy(env.yt.parsed))
               => ~Uses(out.calls, SpeechCalls)
        /\ Uses(out.calls, BackendCalls)
               => Uses(out.calls, {"download_single_episode"})

\* a call went through every stage from the lookup to the write-back
C4_Witness ==
    /\ last.op = "get_transcript"
    /\ Len(last.calls) = 6
    /\ last.calls[1] = "check_cache"
    /\ last.calls[2] = "check_youtube_availability"
    /\ last.calls[3] = "download_single_episode"
    /\ last.calls[4] \in BackendCalls
    /\ last.calls[6] = "cache_transcript"

\* C5: in every state and for every call, a call that returns an unavailable
\* result leaves the cache directory as it was and the next lookup of its
\* key is a miss; the directory changes only in a call that returns text
\* from the subtitle stage or the speech stage.
C5_FailuresNotCached ==
    \A p \in Podcasts, e \in Titles, a \in {None, AudioUrl},
       r \in {None, RssUrl}, env \in Envs :
        LET out == get_transcript(config, cache_dir, p, e, a, r, env) IN
        /\ (~out.raised /\ out.value[1].source = "NOT_AVAILABLE")
               => /\ out.dir = cache_dir
                  /\ check_cache(config, out.dir, p, e) = Return(NoneOpt)
        /\ out.dir # cache_dir
               => /\ ~out.raised
                  /\ Truthy(out.value[1].text)
                  /\ Uses(out.calls,
                          BackendCalls \cup {"fetch_youtube_transcript"})

\* a call returned unavailable over a cache that holds entries
C5_Witness ==
    /\ last.op = "get_transcript"
    /\ ~last.raised
    /\ last.value[1].source = "NOT_AVAILABLE"
    /\ config.cache_transcripts
    /\ cache_dir # << >>

\* C6: in every state where the cache holds an entry for the pair, a call
\* returns the stored text, source, score and metadata, invokes nothing but
\* the lookup and leaves the cache directory as it was.
C6_CacheHitReturnsEntry ==
    \A p \in Podcasts, e \in Titles, a \in {None, AudioUrl},
       r \in {None, RssUrl}, env \in Envs :
        Stored(cache_dir, p, e) =>
            LET out == get_transcript(config, cache_dir, p, e, a, r, env)
                data == ReadJson(cache_dir, get_cache_path(p, e))
            IN  /\ ~out.raised
                /\ out.value # NoneOpt
                /\ out.value[1].text = Some(data.text)
                /\ SourceValue(out.value[1].source) = data.source
                /\ out.value[1].quality_score = data.quality_score
                /\ out.value[1].metadata = data.metadata
                /\ out.calls = <<"check_cache">>
                /\ out.dir = cache_dir

\* a call was answered from the cache
C6_Witness ==
    /\ last.op = "get_transcript"
    /\ last.calls = <<"check_cache">>
    /\ last.value # NoneOpt
    /\ Truthy(last.value[1].text)
    /\ Stored(cache_dir, last.podcast_name, last.episode_title)

\* C7: with caching enabled, in every state, put(p, e, r) of a result with
\* text followed by get(p, e) returns a result equal to r in all fields.
C7_PutGetRoundTrip ==
    config.cache_transcripts =>
        \A p \in Podcasts, e \in Episodes, r \in PutResults :
            Truthy(r.text) =>
                check_cache(config,
                            cache_transcript(config, cache_dir, p, e, r),
                            p, e) = Return(Some(r))

\* C8: in every state, put(p, e, r) of a result without text leaves the
\* cache directory as it was, and get(p, e) then returns None if the cache
\* held no entry for the pair.
C8_PutWithoutTextIsNoOp ==
    \A p \in Podcasts, e \in Episodes, r \in PutResults :
        ~Truthy(r.text) =>
            LET dir == cache_transcript(config, cache_dir, p, e, r) IN
            /\ dir = cache_dir
            /\ ~Stored(cache_dir, p, e)
                   => check_cache(config, dir, p, e) = Return(NoneOpt)

\* C9: after any sequence of puts from the empty cache, the records of the
\* cache total at most the configured budget (the slack of one record that
\* the claim allows is not used).
C9_CacheWithinBudget == TotalSize(cache_dir) <= config.max_cache_size_mb

\* a put wrote a record larger than the whole budget, and eviction removed it
C9_Witness ==
    /\ last.op = "put"
    /\ config.cache_transcripts
    /\ Truthy(last.arg[1].text)
    /\ ~NameTooLong(get_cache_path(last.podcast_name, last.episode_title))
    /\ ~Stored(cache_dir, last.podcast_name, last.episode_title)

\* C10: on a cache miss with prefer_youtube set and a feed URL given, when
\* the video is located and its subtitles have text, the call returns that
\* text with a video-subtitle source, writes it to the cache when caching is
\* enabled, and invokes neither the downloader nor a speech backend.
C10_SubtitlesReturned ==
    \A p \in Podcasts, e \in Titles, a \in {None, AudioUrl}, env \in Envs :
        (/\ config.prefer_youtube
         /\ check_cache(config, cache_dir, p, e) = Return(NoneOpt)
         /\ env.located
         /\ env.yt = Subtitles) =>
            LET out == get_transcript(config, cache_dir, p, e, a, RssUrl, env)
            IN  /\ ~out.raised
                /\ out.value[1].text = env.yt.parsed
                /\ out.value[1].source \in YouTubeTags
                /\ config.cache_transcripts
                       => Uses(out.calls, {"cache_transcript"})
                /\ ~Uses(out.calls, SpeechCalls)

\* the number of calls in calls that are in cs
Count(calls, cs) == Cardinality({i \in 1..Len(calls) : calls[i] \in cs})

\* C11: in every state and for every call, the video search, the subtitle
\* download, the audio download and the speech backends are each invoked at
\* most once (the backends at most once together), and a speech stage that
\* fails ends the call with an unavailable result and no further invocation.
C11_EachCollaboratorOnce ==
    \A p \in Podcasts, e \in Titles, a \in {None, AudioUrl},
       r \in {None, RssUrl}, env \in Envs :
        LET out == get_transcript(config, cache_dir, p, e, a, r, env) IN
        /\ Count(out.calls, {"check_youtube_availability"}) <= 1
        /\ Count(out.calls, {"fetch_youtube_transcript"}) <= 1
        /\ Count(out.calls, {"download_single_episode"}) <= 1
        /\ Count(out.calls, BackendCalls) <= 1
        /\ (Uses(out.calls, SpeechCalls) /\ ~Truthy(out.value[1].text))
               => /\ out.value[1].source = "NOT_AVAILABLE"
                  /\ out.calls[Len(out.calls)] \in SpeechCalls

\* a call whose video search found nothing fell back to the speech stage,
\* whose backend failed
C11_Witness ==
    /\ last.op = "get_transcript"
    /\ Len(last.calls) >= 3
    /\ last.calls[Len(last.calls) - 2] = "check_youtube_availability"
    /\ last.calls[Len(last.calls) - 1] = "download_single_episode"
    /\ last.calls[Len(last.calls)] \in BackendCalls
    /\ last.value[1].source = "NOT_AVAILABLE"

\* C12: in every state and for every call, a text produced by the hosted
\* speech API is returned with source WHISPER_OPENAI.
C12_HostedApiTag ==
    \A p \in Podcasts, e \in Titles, a \in {None, AudioUrl},
       r \in {None, RssUrl}, env \in Envs :
        LET out == get_transcript(config, cache_dir, p, e, a, r, env) IN
        (/\ config.use_openai_whisper
         /\ Uses(out.calls, {"OpenAIWhisperTranscriber.transcribe"})
         /\ Truthy(out.value[1].text))
            => out.value[1].source = "WHISPER_OPENAI"

\* C13 (as amended): in every state and for every call, the text "word "
\* repeated 600 times returned by the speech backend is given quality_score
\* 0.8: 0.1 is taken off for a length between 500 and 1000 words and 0.1 for
\* an average sentence length above 30 words.
C13_ScenarioScore ==
    \A p \in Podcasts, e \in Titles, a \in {None, AudioUrl},
       r \in {None, RssUrl}, env \in Envs :
        LET out == get_transcript(config, cache_dir, p, e, a, r, env) IN
        (/\ env.transcript = Some(ScenarioText)
         /\ Uses(out.calls, {"calculate_quality_score"}))
            => /\ out.value[1].text = Some(ScenarioText)
               /\ out.value[1].quality_score = 80

\* a call returned the 600-word text of the speech backend
C13_Witness ==
    /\ last.op = "get_transcript"
    /\ Uses(last.calls, {"calculate_quality_score"})
    /\ last.value[1].text = Some(ScenarioText)

\* C13 (as stated): in every state and for every call, the text "word "
\* repeated 600 times returned by the speech backend is given quality_score
\* exactly 1.0.
C13_ScenarioScoreOne ==
    \A p \in Podcasts, e \in Titles, a \in {None, AudioUrl},
       r \in {None, RssUrl}, env \in Envs :
        LET out == get_transcript(config, cache_dir, p, e, a, r, env) IN
        (/\ env.transcript = Some(ScenarioText)
         /\ Uses(out.calls, {"calculate_quality_score"}))
            => out.value[1].quality_score = 100

MissingApiKey ==
    "OpenAI API key required. Provide via api_key or credentials_file."

\* C16: in every state and for every call with the hosted backend active,
\* the result returned when the audio file exceeds the size cap and the
\* result returned when the request to the service fails are both
\* unavailable and differ in their metadata.
C16_FailuresDistinguishable ==
    \A p \in Podcasts, e \in Titles, r \in {None, RssUrl}, env \in Envs,
       api \in Apis :
        LET too_large ==
                transcribe([exists |-> TRUE, size |-> MAX_FILE_SIZE + 1], api)
            failed ==
                transcribe([exists |-> TRUE, size |-> MAX_FILE_SIZE],
                           [api EXCEPT !.raises = TRUE])
            out1 == get_transcript(config, cache_dir, p, e, AudioUrl, r,
                                   [env EXCEPT !.transcript = too_large.value])
            out2 == get_transcript(config, cache_dir, p, e, AudioUrl, r,
                                   [env EXCEPT !.transcript = failed.value])
        IN  (/\ config.use_openai_whisper
             /\ Uses(out1.calls, {"OpenAIWhisperTranscriber.transcribe"})
             /\ Uses(out2.calls, {"OpenAIWhisperTranscriber.transcribe"}))
                => /\ out1.value[1].source = "NOT_AVAILABLE"
                   /\ out2.value[1].source = "NOT_AVAILABLE"
                   /\ out1.value[1].metadata # out2.value[1].metadata

\* C17: in every state and for every call, no unavailable result reports
\* the missing credentials of the hosted backend: a fetcher that exists has
\* them.
C17_CredentialsCheckedAtConstruction ==
    \A p \in Podcasts, e \in Titles, a \in {None, AudioUrl},
       r \in {None, RssUrl}, env \in Envs :
        LET out == get_transcript(config, cache_dir, p, e, a, r, env) IN
        (~out.raised /\ out.value[1].source = "NOT_AVAILABLE")
            => out.value[1].metadata.error # MissingApiKey

\* C18: in every state and for every call whose speech stage has the audio
\* file and the credentials, exactly one backend is invoked, the one the
\* flags select (hosted if use_openai_whisper, else remote if
\* use_remote_whisper, else local); when it yields no text the call ends
\* there with an unavailable result.
C18_ExactlyOneBackend ==
    \A p \in Podcasts, e \in Titles, a \in {None, AudioUrl},
       r \in {None, RssUrl}, env \in Envs :
        LET out == get_transcript(config, cache_dir, p, e, a, r, env) IN
        (/\ Uses(out.calls, {"download_single_episode"})
         /\ env.download_ok
         /\ config.use_openai_whisper => env.api_key)
            => /\ Count(out.calls, BackendCalls) = 1
               /\ Uses(out.calls,
                       {IF config.use_openai_whisper
                        THEN "OpenAIWhisperTranscriber.transcribe"
                        ELSE IF config.use_remote_whisper
                        THEN "_transcribe_remote"
                        ELSE "EpisodeTranscriber.transcribe"})
               /\ ~Truthy(env.transcript)
                      => /\ out.value[1].source = "NOT_AVAILABLE"
                         /\ out.calls[Len(out.calls)] \in BackendCalls

\* a call with the remote service selected ended unavailable after its one
\* backend call
C18_Witness ==
    /\ last.op = "get_transcript"
    /\ ~config.use_openai_whisper
    /\ config.use_remote_whisper
    /\ Len(last.calls) >= 2
    /\ last.calls[Len(last.calls)] = "_transcribe_remote"
    /\ last.value[1].source = "NOT_AVAILABLE"

\* C19: after every fetch_youtube_transcript that finds a track with text
\* for a requested language, the result is youtube_manual with score 1.0
\* when the track is human-authored and youtube_auto with score 0.8 when it
\* is machine-generated.
C19_ManualBeforeAuto ==
    (/\ last.op = "fetch_youtube_transcript"
     /\ last.arg[1].video_url = YouTubeUrl
     /\ ~last.arg[1].yt.raises
     /\ FirstWithFile(last.arg[1].languages, last.arg[1].yt.files) # None
     /\ Truthy(last.arg[1].yt.parsed))
        => /\ last.arg[1].yt.kind = "manual"
                => /\ last.value[1].source = "YOUTUBE_MANUAL"
                   /\ last.value[1].quality_score = 100
           /\ last.arg[1].yt.kind = "auto"
                => /\ last.value[1].source = "YOUTUBE_AUTO"
                   /\ last.value[1].quality_score = 80

\* T + "[inaudible] " or T + "[music] "
WithMarker(t, marker) == Append(t, Run(marker, 1))

\* appending one token lifts the text into a better length tier, or lifts
\* its average sentence length out of the range below 5
LiftsTier(t) ==
    \/ LengthPenalty(WordCount(t) + 1) < LengthPenalty(WordCount(t))
    \/ ShortSentences(t) /\ ~ShortSentences(WithMarker(t, "[music]"))

\* C20 (as amended): after every scoring of a non-empty baseline T that an
\* appended token lifts neither into a better length tier nor out of the
\* range of average sentence lengths below 5, the scores of
\* T + "[inaudible] " and of T + "[music] " are at most the score of T.
C20_MarkerNeverRaisesInTier ==
    (/\ last.op = "calculate_quality_score"
     /\ Truthy(last.arg[1])
     /\ ~LiftsTier(last.arg[1][1]))
        => \A marker \in {"[inaudible]", "[music]"} :
               calculate_quality_score(
                   Some(WithMarker(last.arg[1][1], marker)))
                   <= last.value[1]

\* a baseline of 500 words was scored, and a marker lowers its score
C20_Witness ==
    /\ last.op = "calculate_quality_score"
    /\ Truthy(last.arg[1])
    /\ WordCount(last.arg[1][1]) = 500
    /\ ~LiftsTier(last.arg[1][1])
    /\ calculate_quality_score(Some(WithMarker(last.arg[1][1], "[inaudible]")))
           < last.value[1]

\* C20 (as stated): after every scoring of a baseline T of any length, the
\* scores of T + "[inaudible] " and of T + "[music] " are at most the score
\* of T.
C20_MarkerNeverRaises ==
    (/\ last.op = "calculate_quality_score"
     /\ last.arg[1] # NoneOpt)
        => \A marker \in {"[inaudible]", "[music]"} :
               calculate_quality_score(
                   Some(WithMarker(last.arg[1][1], marker)))
                   <= last.value[1]

\* C21: after every scoring, the score is between 0.0 and 1.0 inclusive, and
\* it is 0.0 when the transcript is None or the empty string.
C21_ScoreInUnitInterval ==
    last.op = "calculate_quality_score"
        => /\ last.value[1] >= 0
           /\ last.value[1] <= 100
           /\ (last.arg[1] = NoneOpt \/ last.arg[1] = Some(<< >>))
                  => last.value[1] = 0

\* the empty string was scored
C21_Witness ==
    /\ last.op = "calculate_quality_score"
    /\ last.arg[1] = Some(<< >>)
    /\ last.value[1] = 0

\* the wrapper ended as the retry contract says: a return hands back the value
\* of the one successful invocation, which was the last invocation; a raise
\* comes after exactly num_retries invocations that all raised and carries
\* the exception of the last of them
EndsByContract(f) ==
    /\ f.pc = "returned"
           => /\ f.value # NoneOpt
              /\ f.invocations = Len(f.raised) + 1
    /\ f.pc = "raised"
           => /\ f.invocations = f.num_retries
              /\ Len(f.raised) = f.num_retries
              /\ f.exc = f.raised[Len(f.raised)]
    /\ f.invocations <= Len(f.raised) + 1

\* C23 (amended): for num_retries >= 1, the wrapped function is invoked until
\* its first successful return, whose value is returned with no further
\* invocation, and if every attempt raises it is invoked exactly num_retries
\* times and the exception of the last attempt propagates; for num_retries = 0
\* it is never invoked and the wrapper returns None.
C23_RetryContractFromOne ==
    /\ frame.num_retries >= 1 => EndsByContract(frame)
    /\ (frame.num_retries = 0 /\ frame.pc # "idle")
           => /\ frame.invocations = 0
              /\ frame.pc \in {"while", "returned"}
              /\ frame.value = NoneOpt

C23_Witness ==
    /\ frame.pc = "raised"
    /\ frame.num_retries = 3
    /\ frame.invocations = 3
    /\ frame.raised = <<"ValueError", "TypeError", "ValueError">>
    /\ frame.exc = "ValueError"

\* C23 (as stated): for every num_retries, the wrapper ends by the retry
\* contract: it returns the value of the first successful invocation, or
\* raises the last exception after exactly num_retries invocations.
C23_RetryContract ==
    EndsByContract(frame)

\* the characters of the lines of a file that have one of the given roles,
\* in file order
LinesOf(file, roles) ==
    LET kept == SelectSeq(file, LAMBDA l : l.role \in roles) IN
    [i \in 1..Len(kept) |-> kept[i].chars]

\* the tokens of the given lines, with one blank between two of them
SingleSpaced(lines) ==
    LET toks == Split(Join(lines)) IN
    Join([i \in 1..Len(toks) |-> <<toks[i]>>])

\* C25: _parse_vtt_file returns exactly the cue text lines in their order,
\* joined by single blanks: blank lines, cue-index lines, timing lines and the
\* WEBVTT header are discarded and every other line is kept, and no token of
\* the output is a cue time or a cue index taken from an index line.
C25_ParseKeepsCueText ==
    last.op = "_parse_vtt_file"
        => /\ last.value[1]
                  = SingleSpaced(LinesOf(last.arg[1], {"text", "meta"}))
           /\ \A i \in 1..Len(last.value[1]) :
                  last.value[1][i] \notin TimeTokens

\* the entries of a search, none when it raised or returned no results
EntriesOf(search) ==
    IF search.raises \/ search.results = NoneOpt THEN << >>
    ELSE search.results[1]

\* the matching rule in the words of the specification: two of the first 5
\* words of the episode title, both longer than 3 characters, are in the
\* candidate's title, or the first 30 characters of the episode title are
TitleAccepted(episode_title, title) ==
    LET words == StrSplit(Lower(episode_title))
        n == Min(5, Len(words)) IN
    \/ \E i, j \in 1..n :
           /\ i < j
           /\ Len(words[i]) > 3 /\ Contains(Lower(title), words[i])
           /\ Len(words[j]) > 3 /\ Contains(Lower(title), words[j])
    \/ Contains(Lower(title), Prefix(Lower(episode_title), 30))

\* the positions of the accepted candidates of the last search
AcceptedEntries ==
    {i \in 1..Len(EntriesOf(last.arg[1])) :
        /\ EntriesOf(last.arg[1])[i] # NoneOpt
        /\ TitleAccepted(last.episode_title,
                         EntriesOf(last.arg[1])[i][1].title)}

\* the URL of the first accepted candidate of the last search
FirstAcceptedUrl ==
    LET first == CHOOSE i \in AcceptedEntries :
                     \A j \in AcceptedEntries : i <= j IN
    Some(WatchUrl(EntriesOf(last.arg[1])[first][1].id))

\* the last search has a first result
HasFirstResult ==
    /\ EntriesOf(last.arg[1]) # << >>
    /\ EntriesOf(last.arg[1])[1] # NoneOpt

\* the URL of the first result of the last search
FirstResultUrl == Some(WatchUrl(EntriesOf(last.arg[1])[1][1].id))

\* the podcast name of the last search has "lenny" in it, in any case
NamedLenny == Contains(Lower(last.podcast_name), <<"l", "e", "n", "n", "y">>)

C27_FallbackForListedShows ==
    (/\ last.op = "search_youtube_for_episode"
     /\ HasFirstResult
     /\ AcceptedEntries = {})
        => last.value = IF last.podcast_name \in youtube_channels
                        THEN FirstResultUrl
                        ELSE NoneOpt

\* the directory at the moment the eviction of a put starts: the put of the
\* next state has written its record into the directory of this state
WrittenByPut ==
    cache_write(config, cache_dir, last'.podcast_name, last'.episode_title,
                last'.arg[1])

\* st_mtime of the records of a directory: a record is the newer the later
\* it is in the directory
NoNewer(dir, i, j) == i <= j

\* the eviction of the put of the next state deleted the k oldest records
\* and no more than the budget asked for
EvictedOldest(k) ==
    LET written == WrittenByPut
        deleted == 1..k
        surviving == (k + 1)..Len(written) IN
    /\ cache_dir' = SubSeq(written, k + 1, Len(written))
    /\ \A d \in deleted, v \in surviving : NoNewer(written, d, v)
    /\ \A d \in deleted :
           TotalSize(SubSeq(written, d, Len(written)))
               > config.max_cache_size_mb
    /\ TotalSize(cache_dir') <= config.max_cache_size_mb

\* C28: the eviction of a put deletes records in ascending last-modified
\* order and stops as soon as the total is within the budget, so every
\* deleted record is no newer than every surviving one; a get leaves the
\* directory, and with it the order of eviction, as it was.
C28_EvictionOldestFirst ==
    [][/\ last'.op = "put"
           => /\ Len(cache_dir') <= Len(WrittenByPut)
              /\ EvictedOldest(Len(WrittenByPut) - Len(cache_dir'))
              /\ Len(last'.calls) = Len(WrittenByPut) - Len(cache_dir')
       /\ last'.op = "get"
           => /\ cache_dir' = cache_dir
              /\ \A budget \in 0..MaxBudgetMb :
                     LET cfg == [config EXCEPT !.max_cache_size_mb = budget] IN
                     manage_cache_size(cfg, cache_dir')
                         = manage_cache_size(cfg, cache_dir)]_vars

\* the eviction of a put deleted a record and left a newer one
C28_Witness ==
    /\ last.op = "put"
    /\ Len(last.calls) = 1
    /\ Len(cache_dir) = 1
    /\ Stored(cache_dir, last.podcast_name, last.episode_title)

\* what get returns for the pair (p, e) over the directory dir
GetOf(dir, p, e) == check_cache(config, dir, p, e)

\* the put of the next state left the result of get for (p, e) as it was,
\* or evicted the entry
UntouchedOrEvicted(p, e) ==
    \/ GetOf(cache_dir', p, e) = GetOf(cache_dir, p, e)
    \/ GetOf(cache_dir', p, e) = Return(NoneOpt)

\* C29 (amended): for any two pairs that are mapped to different cache
\* paths, a put under one never changes the result that get returns for the
\* other except by evicting it.
C29_IsolatedByPath ==
    [][last'.op = "put"
          => \A p \in Podcasts, e \in Episodes :
                get_cache_path(p, e)
                        # get_cache_path(last'.podcast_name, last'.episode_title)
                    => UntouchedOrEvicted(p, e)]_vars

\* a put left the entry of another pair in the cache
C29_Witness ==
    /\ last.op = "put"
    /\ Stored(cache_dir, last.podcast_name, last.episode_title)
    /\ \E e \in Episodes :
           /\ get_cache_path(last.podcast_name, e)
                  # get_cache_path(last.podcast_name, last.episode_title)
           /\ Stored(cache_dir, last.podcast_name, e)

\* C29 (as stated): for any two distinct pairs, a put under one never
\* changes the result that get returns for the other except by evicting it.
C29_IsolatedByPair ==
    [][last'.op = "put"
          => \A p \in Podcasts, e \in Episodes :
                <<p, e>> # <<last'.podcast_name, last'.episode_title>>
                    => UntouchedOrEvicted(p, e)]_vars

\* a get finds no record, or the whole result of one writer
OneWritersResult(got) ==
    \/ got = NoneOpt
    \/ \E w \in Writers : got = Some(RaceResult(w))

\* C22: while two puts under one key run, with gets in between, the stored
\* record is at every moment absent (a get would find none) or the complete
\* record of exactly one writer, and a get never returns a result that mixes
\* the two writes or differs from both.
C22_AbsentOrCompleteRecord ==
    /\ OneWritersResult(check_cache_file(contested_file))
    /\ last.op = "get" => OneWritersResult(last.value)

\* what check_rate_limit leaves of the counter at the present time, by the
\* rule of the daily reset
CountedToday ==
    IF now - session_state.last_reset > DAY THEN 0
    ELSE session_state.transcript_count

\* C24: in every state, can_transcribe returns true exactly when the session
\* is authenticated and fewer than DEMO_USER_TRANSCRIPT_LIMIT transcripts are
\* counted since the last reset, and check_rate_limit returns
\* (remaining > 0, remaining) with remaining = limit - transcript_count,
\* after it reset transcript_count to 0 when more than 24 hours have passed
\* since last_reset.
C24_RateLimit ==
    LET remaining == DEMO_USER_TRANSCRIPT_LIMIT - CountedToday
        checked == check_rate_limit(session_state, now) IN
    /\ can_transcribe(session_state, now).ret
           = (/\ session_state.authenticated
              /\ CountedToday < DEMO_USER_TRANSCRIPT_LIMIT)
    /\ checked.ret = <<remaining > 0, remaining>>
    /\ checked.session.transcript_count = CountedToday
    /\ checked.session.last_reset
           = IF now - session_state.last_reset > DAY
             THEN now ELSE session_state.last_reset

\* the counter is at the limit and exactly 24 hours have passed: not yet reset
C24_Witness ==
    /\ session_state.authenticated
    /\ session_state.transcript_count = DEMO_USER_TRANSCRIPT_LIMIT
    /\ now - session_state.last_reset = DAY
    /\ ~can_transcribe(session_state, now).ret

\* C30: over any sequence of session actions, one browser session makes at
\* most DEMO_USER_TRANSCRIPT_LIMIT transcriptions between two daily resets
\* of the counter.
C30_LimitPerDay == transcribed <= DEMO_USER_TRANSCRIPT_LIMIT

====
